---- MODULE Spec2Model ----
(***************************************************************************)
(* A model of app.py, the BingX webhook trading bot: the TradeTracker      *)
(* (cooldown table and mode cache), the request handlers /webhook and      *)
(* /backup running execute_trade on concurrent request threads, and the    *)
(* exchange account the bot talks to over HTTP.                            *)
(*                                                                         *)
(* Quantities are integers in units of 10^-4 (the precision of round(q,4)) *)
(* and the clock is in whole seconds.  Every HTTP request is one step of   *)
(* the calling thread; its response is drawn from the outcomes the         *)
(* exchange can give (an error, a rejection, or the account's state).      *)
(***************************************************************************)
EXTENDS Integers, Sequences, FiniteSets, TLC

\* ---------------------------------------------------------------- bounds
\* requests arriving one at a time: seconds of idle time, and signals
MaxTime == 12
MaxAttempts == 2
\* requests on both endpoints at once
MaxTimeConcurrent == 2
MaxAttemptsConcurrent == 2

\* ------------------------------------------------------ program constants
Epoch == 1000
Cooldown == 10
ModeCacheTTL == 300
SizeMultiplier == 3
Precision == 10000
LeverageSetting == 10

\* one request in flight on each endpoint: its thread is named after it
Threads == {"PRIMARY", "BACKUP"}
Symbols == {"SUI-USDT"}
Actions == {"BUY", "SELL"}
Budgets == {5, 10}
Prices == {-5, 0, 5, 10, 32, 400000}
ConcurrentPrices == {10}
InitialQty == 20000
AccountModes == {"ONE_WAY", "HEDGE"}

VARIABLES
    TRADE_BALANCE,    \* the configured budget, read once at start
    now,              \* time.time(), in seconds
    active_trades,    \* TradeTracker.active_trades: symbol -> {} or {entry}
    mode_cache,       \* TradeTracker.mode_cache: symbol -> {} or {entry}
    accountMode,      \* the position mode the exchange account is in
    exLong,           \* exchange: symbol -> quantity held LONG
    exShort,          \* exchange: symbol -> quantity held SHORT
    pc,               \* each request thread's position in the code
    symbol,           \* execute_trade's arguments
    action,
    caller,           \* the function detect_position_mode returns to
    position_mode,    \* detect_position_mode's result
    lev_side,         \* set_leverage's loop over ["LONG", "SHORT"]
    current_position, \* execute_trade's local: {} (None) or {[side, quantity]}
    quantity,         \* open_position's local
    wake,             \* the time a time.sleep ends
    outcome,          \* the dictionary and HTTP status execute_trade returns
    calls,            \* HTTP requests this attempt has made
    log,              \* position reads, price reads and orders of this attempt
    attempts          \* signals received so far

tracker == <<active_trades, mode_cache>>
exchange == <<accountMode, exLong, exShort>>
locals == <<symbol, action, caller, position_mode, lev_side,
            current_position, quantity, wake>>
history == <<outcome, calls, log, attempts>>
vars == <<TRADE_BALANCE, now, tracker, exchange, pc, locals, history>>

\* --------------------------------------------------------------- helpers
NoOutcome == [status |-> "none", reason |-> "none", http |-> 0]

Event(op, ok, side, positionSide, qty) ==
    [op |-> op, ok |-> ok, side |-> side, positionSide |-> positionSide, qty |-> qty]

Abs(x) == IF x < 0 THEN 0 - x ELSE x

\* round(n / d) to the nearest integer, ties to the even one (Python's round)
RoundHalfEven(n, d) ==
    LET nn == IF d < 0 THEN 0 - n ELSE n
        dd == Abs(d)
        q == nn \div dd
        r == nn % dd
    IN  IF 2 * r < dd THEN q
        ELSE IF 2 * r > dd THEN q + 1
        ELSE IF q % 2 = 0 THEN q ELSE q + 1

\* a variant of PositionSize: sized at the leverage set_leverage is given
PositionSizeAtLeverage(balance, price) ==
    RoundHalfEven(balance * LeverageSetting * Precision, price)

\* open_position: usdt_value = TRADE_BALANCE * 3; round(usdt_value / price, 4)
PositionSize(balance, price) ==
    RoundHalfEven(balance * SizeMultiplier * Precision, price)

\* open_position: `if not current_price` (None or 0.0)
PriceUnusable(ok, price) == ~ok \/ price = 0

\* a variant of can_trade: the cooldown never holds a signal back
can_trade_always(s) == TRUE

\* a variant of can_trade: the cooldown still holds at exactly 10 seconds
can_trade_inclusive(s) ==
    LET last_trade_time ==
            IF active_trades[s] = {} THEN 0
            ELSE (CHOOSE e \in active_trades[s] : TRUE).timestamp
    IN  ~(now - last_trade_time <= Cooldown)

\* TradeTracker.can_trade
can_trade(s) ==
    LET last_trade_time ==
            IF active_trades[s] = {} THEN 0
            ELSE (CHOOSE e \in active_trades[s] : TRUE).timestamp
    IN  ~(now - last_trade_time < Cooldown)

\* TradeTracker.get_cached_mode: {} stands for None
get_cached_mode(s) ==
    {c.mode : c \in {e \in mode_cache[s] : now - e.timestamp < ModeCacheTTL}}

Init ==
    /\ TRADE_BALANCE \in Budgets
    /\ now = Epoch
    /\ active_trades = [s \in Symbols |-> {}]
    /\ mode_cache = [s \in Symbols |-> {}]
    /\ accountMode \in AccountModes
    /\ \E side \in {"FLAT", "LONG", "SHORT"} :
          /\ exLong = [s \in Symbols |-> IF side = "LONG" THEN InitialQty ELSE 0]
          /\ exShort = [s \in Symbols |-> IF side = "SHORT" THEN InitialQty ELSE 0]
    /\ pc = [t \in Threads |-> "idle"]
    /\ symbol = [t \in Threads |-> "SUI-USDT"]
    /\ action = [t \in Threads |-> "BUY"]
    /\ caller = [t \in Threads |-> "none"]
    /\ position_mode = [t \in Threads |-> "ONE_WAY"]
    /\ lev_side = [t \in Threads |-> "LONG"]
    /\ current_position = [t \in Threads |-> {}]
    /\ quantity = [t \in Threads |-> 0]
    /\ wake = [t \in Threads |-> 0]
    /\ outcome = [t \in Threads |-> NoOutcome]
    /\ calls = [t \in Threads |-> 0]
    /\ log = [t \in Threads |-> <<>>]
    /\ attempts = 0

\* ------------------------------------------------------------- exchange
\* The position records GET /user/positions returns for a symbol: one for
\* each side held, with a signed positionAmt.
PositionRecords(s) ==
    (IF exLong[s] > 0 THEN {[side |-> "LONG", quantity |-> exLong[s]]} ELSE {})
    \cup
    (IF exShort[s] > 0 THEN {[side |-> "SHORT", quantity |-> exShort[s]]} ELSE {})

\* The orders the account can fill: a positive quantity and the positionSide
\* of the account's mode; in hedge mode a reducing order at most the holding.
OrderValid(s, side, positionSide, qty) ==
    /\ qty > 0
    /\ IF accountMode = "ONE_WAY"
       THEN positionSide = "BOTH"
       ELSE \/ positionSide = "LONG" /\ (side = "BUY" \/ qty <= exLong[s])
            \/ positionSide = "SHORT" /\ (side = "SELL" \/ qty <= exShort[s])

\* POST /trade/order: the exchange rejects (or the request fails) and nothing
\* changes, or it accepts (code 0) and fills the market order at once.  An
\* order that is filled although its response is lost is not modelled.
SubmitOrder(s, side, positionSide, qty, accepted) ==
    IF ~accepted
    THEN UNCHANGED <<exLong, exShort>>
    ELSE /\ OrderValid(s, side, positionSide, qty)
         /\ IF accountMode = "ONE_WAY"
            THEN LET net == exLong[s] - exShort[s]
                            + (IF side = "BUY" THEN qty ELSE 0 - qty)
                 IN  /\ exLong' = [exLong EXCEPT ![s] = IF net > 0 THEN net ELSE 0]
                     /\ exShort' = [exShort EXCEPT ![s] = IF net < 0 THEN 0 - net ELSE 0]
            ELSE IF positionSide = "LONG"
            THEN /\ exLong' = [exLong EXCEPT
                        ![s] = IF side = "BUY" THEN @ + qty ELSE @ - qty]
                 /\ UNCHANGED exShort
            ELSE /\ exShort' = [exShort EXCEPT
                        ![s] = IF side = "SELL" THEN @ + qty ELSE @ - qty]
                 /\ UNCHANGED exLong

\* ------------------------------------------------------------- the steps
Goto(t, label) == pc' = [pc EXCEPT ![t] = label]

Request(t) == calls' = [calls EXCEPT ![t] = @ + 1]

Logged(t, e) == log' = [log EXCEPT ![t] = Append(@, e)]

\* a variant of Return: a failed attempt is answered with a server error
ReturnErrorOnFailure(t, status, reason) ==
    /\ outcome' = [outcome EXCEPT
            ![t] = [status |-> status, reason |-> reason,
                    http |-> IF status = "failed" THEN 500 ELSE 200]]
    /\ Goto(t, "return")

\* a variant of Return: every attempt that gets to the end reports success
ReturnSuccessAlways(t, status, reason) ==
    /\ outcome' = [outcome EXCEPT
            ![t] = [status |-> "success", reason |-> reason, http |-> 200]]
    /\ Goto(t, "return")

\* execute_trade's return value, handed to jsonify(result), status
Return(t, status, reason) ==
    /\ outcome' = [outcome EXCEPT
            ![t] = [status |-> status, reason |-> reason, http |-> 200]]
    /\ Goto(t, "return")

\* where detect_position_mode's caller goes on with the mode
AfterDetect(c) ==
    CASE c = "set_leverage" -> "leverage_post"
      [] c = "close_position" -> "close_post"
      [] c = "open_position" -> "open_post"

\* a variant of need_to_close: only a position opposite to the signal
need_to_close_opposite(a, current_side) ==
    \/ (a = "BUY" /\ current_side = "SHORT") \/ (a = "SELL" /\ current_side = "LONG")

\* a variant of need_to_close: the position read is never closed
need_to_close_never(a, current_side) == FALSE

\* execute_trade, STEP 3: whether the position read has to be closed
need_to_close(a, current_side) ==
    \/ (a = "BUY" /\ current_side = "SHORT") \/ (a = "SELL" /\ current_side = "LONG")
    \/ (a = "BUY" /\ current_side = "LONG") \/ (a = "SELL" /\ current_side = "SHORT")

\* open_position / close_position: params["positionSide"]
OpenPositionSide(mode, a) ==
    IF mode = "HEDGE" THEN (IF a = "BUY" THEN "LONG" ELSE "SHORT") ELSE "BOTH"

\* a variant of ClosePositionSide: in hedge mode the side the closing order
\* trades towards instead of the side of the position
ClosePositionSideOfOrder(mode, side) ==
    IF mode = "HEDGE" THEN (IF side = "LONG" THEN "SHORT" ELSE "LONG") ELSE "BOTH"

ClosePositionSide(mode, side) ==
    IF mode = "HEDGE" THEN side ELSE "BOTH"

\* close_position: close_side
CloseSide(side) == IF side = "LONG" THEN "SELL" ELSE "BUY"

\* a variant of CloseAborts: a failed close is let through
CloseNeverAborts(close_success) == FALSE

\* execute_trade: `if close_success: ... else: return failed`
CloseAborts(close_success) == ~close_success

\* a variant of NextAfterOpen: a rejected open order is submitted again
NextAfterOpenRetrying(open_success) ==
    IF open_success THEN "mark_trade" ELSE "open_post"

\* a variant of NextAfterOpen: the trade is marked whatever the response
NextAfterOpenMarking(open_success) == "mark_trade"

\* open_position: `if data.get("code") == 0:` marks the trade and returns
\* True; otherwise it returns False and execute_trade returns failed
NextAfterOpen(open_success) ==
    IF open_success THEN "mark_trade" ELSE "return"

\* webhook_primary / webhook_backup: a well-formed signal arrives
Webhook(t, s, a, limit) ==
    /\ pc[t] = "idle"
    /\ attempts < limit
    /\ attempts' = attempts + 1
    /\ symbol' = [symbol EXCEPT ![t] = s]
    /\ action' = [action EXCEPT ![t] = a]
    /\ Goto(t, "can_trade")
    /\ UNCHANGED <<TRADE_BALANCE, now, tracker, exchange, caller, position_mode,
                   lev_side, current_position, quantity, wake, outcome, calls, log>>

\* execute_trade: the cooldown check, under the tracker's lock
CheckCooldown(t) ==
    /\ pc[t] = "can_trade"
    /\ IF ~can_trade(symbol[t])
       THEN /\ outcome' = [outcome EXCEPT
                    ![t] = [status |-> "skipped", reason |-> "cooldown_period",
                            http |-> 200]]
            /\ Goto(t, "return")
            /\ UNCHANGED caller
       ELSE /\ caller' = [caller EXCEPT ![t] = "set_leverage"]
            /\ Goto(t, "get_cached_mode")
            /\ UNCHANGED outcome
    /\ UNCHANGED <<TRADE_BALANCE, now, tracker, exchange, symbol, action,
                   position_mode, lev_side, current_position,
                   quantity, wake, calls, log, attempts>>

\* detect_position_mode: the cached mode, under the tracker's lock
GetCachedMode(t) ==
    /\ pc[t] = "get_cached_mode"
    /\ LET cached_mode == get_cached_mode(symbol[t])
       IN  IF cached_mode # {}
           THEN /\ position_mode' = [position_mode EXCEPT
                        ![t] = CHOOSE m \in cached_mode : TRUE]
                /\ Goto(t, AfterDetect(caller[t]))
           ELSE /\ Goto(t, "detect_get")
                /\ UNCHANGED position_mode
    /\ lev_side' = [lev_side EXCEPT ![t] = "LONG"]
    /\ UNCHANGED <<TRADE_BALANCE, now, tracker, exchange, symbol, action,
                   caller, current_position, quantity, wake,
                   history>>

\* detect_position_mode: GET /user/positions, then cache_mode.  The request
\* fails, or some record's text names both LONG and SHORT, or none does.
DetectPositionMode(t) ==
    /\ pc[t] = "detect_get"
    /\ \E resp \in {"error", "plain", "both"} :
          /\ resp = "both" => PositionRecords(symbol[t]) # {}
          /\ LET mode == IF resp = "both" THEN "HEDGE" ELSE "ONE_WAY"
             IN  /\ position_mode' = [position_mode EXCEPT ![t] = mode]
                 /\ mode_cache' =
                        IF resp = "error" THEN mode_cache
                        ELSE [mode_cache EXCEPT
                                ![symbol[t]] = {[mode |-> mode, timestamp |-> now]}]
    /\ Request(t)
    /\ Goto(t, AfterDetect(caller[t]))
    /\ UNCHANGED <<TRADE_BALANCE, now, active_trades, exchange, symbol, action,
                   caller, lev_side, current_position, quantity,
                   wake, outcome, log, attempts>>

\* set_leverage: one POST /trade/leverage (two in hedge mode, LONG then
\* SHORT); an exception ends the function; then time.sleep(1)
SetLeverage(t) ==
    /\ pc[t] = "leverage_post"
    /\ Request(t)
    /\ \E raised \in BOOLEAN :
          IF ~raised /\ position_mode[t] = "HEDGE" /\ lev_side[t] = "LONG"
          THEN /\ lev_side' = [lev_side EXCEPT ![t] = "SHORT"]
               /\ UNCHANGED <<pc, wake>>
          ELSE /\ lev_side' = [lev_side EXCEPT ![t] = "LONG"]
               /\ wake' = [wake EXCEPT ![t] = now + 1]
               /\ Goto(t, "sleep1")
    /\ UNCHANGED <<TRADE_BALANCE, now, tracker, exchange, symbol, action,
                   caller, position_mode, current_position,
                   quantity, outcome, log, attempts>>

\* execute_trade: time.sleep(1) is over
Sleep1(t) ==
    /\ pc[t] = "sleep1"
    /\ now >= wake[t]
    /\ wake' = [wake EXCEPT ![t] = 0]
    /\ Goto(t, "get_position")
    /\ UNCHANGED <<TRADE_BALANCE, now, tracker, exchange, symbol, action,
                   caller, position_mode, lev_side,
                   current_position, quantity, history>>

\* get_current_position, and execute_trade's STEP 3 decision on its result:
\* the request fails (None), or the first record with a nonzero amount
GetCurrentPosition(t) ==
    /\ pc[t] = "get_position"
    /\ Request(t)
    /\ \E ok \in BOOLEAN :
       \E found \in IF ok /\ PositionRecords(symbol[t]) # {}
                    THEN {{p} : p \in PositionRecords(symbol[t])}
                    ELSE {{}} :
          /\ current_position' = [current_position EXCEPT ![t] = found]
          /\ Logged(t, IF found = {}
                       THEN Event("position", ok, "NONE", "", 0)
                       ELSE LET p == CHOOSE p \in found : TRUE
                            IN  Event("position", ok, p.side, "", p.quantity))
          /\ IF found # {} /\ need_to_close(action[t], (CHOOSE p \in found : TRUE).side)
             THEN /\ caller' = [caller EXCEPT ![t] = "close_position"]
                  /\ Goto(t, "get_cached_mode")
             ELSE /\ UNCHANGED caller
                  /\ Goto(t, "get_price")
    /\ UNCHANGED <<TRADE_BALANCE, now, tracker, exchange, symbol, action,
                   position_mode, lev_side, quantity, wake,
                   outcome, attempts>>

\* close_position: POST /trade/order for the position read; on False
\* execute_trade returns failed, on True it sleeps 3 seconds
ClosePosition(t) ==
    /\ pc[t] = "close_post"
    /\ Request(t)
    /\ LET p == CHOOSE p \in current_position[t] : TRUE
           close_side == CloseSide(p.side)
           positionSide == ClosePositionSide(position_mode[t], p.side)
       IN  \E accepted \in BOOLEAN :
              /\ SubmitOrder(symbol[t], close_side, positionSide, p.quantity, accepted)
              /\ Logged(t, Event("close", accepted, close_side, positionSide, p.quantity))
              /\ IF CloseAborts(accepted)
                 THEN /\ Return(t, "failed", "close_position_failed")
                      /\ UNCHANGED wake
                 ELSE /\ wake' = [wake EXCEPT ![t] = now + 3]
                      /\ Goto(t, "sleep3")
                      /\ UNCHANGED outcome
    /\ UNCHANGED <<TRADE_BALANCE, now, tracker, accountMode, symbol, action,
                   caller, position_mode, lev_side,
                   current_position, quantity, attempts>>

\* execute_trade: time.sleep(3) is over
Sleep3(t) ==
    /\ pc[t] = "sleep3"
    /\ now >= wake[t]
    /\ wake' = [wake EXCEPT ![t] = 0]
    /\ Goto(t, "get_price")
    /\ UNCHANGED <<TRADE_BALANCE, now, tracker, exchange, symbol, action,
                   caller, position_mode, lev_side,
                   current_position, quantity, history>>

\* open_position: get_current_price and the quantity computed from it
GetCurrentPrice(t, quotes) ==
    /\ pc[t] = "get_price"
    /\ Request(t)
    /\ \E ok \in BOOLEAN :
       \E price \in IF ok THEN quotes ELSE {0} :
          /\ Logged(t, Event("price", ok, "", "", price))
          /\ IF PriceUnusable(ok, price)
             THEN /\ Return(t, "failed", "none")
                  /\ UNCHANGED <<quantity, caller>>
             ELSE /\ quantity' = [quantity EXCEPT
                          ![t] = PositionSize(TRADE_BALANCE, price)]
                  /\ caller' = [caller EXCEPT ![t] = "open_position"]
                  /\ Goto(t, "get_cached_mode")
                  /\ UNCHANGED outcome
    /\ UNCHANGED <<TRADE_BALANCE, now, tracker, exchange, symbol, action,
                   position_mode, lev_side, current_position,
                   wake, attempts>>

\* open_position: POST /trade/order
OpenPosition(t) ==
    /\ pc[t] = "open_post"
    /\ Request(t)
    /\ LET positionSide == OpenPositionSide(position_mode[t], action[t])
       IN  \E accepted \in BOOLEAN :
              /\ SubmitOrder(symbol[t], action[t], positionSide, quantity[t], accepted)
              /\ Logged(t, Event("open", accepted, action[t], positionSide, quantity[t]))
              /\ IF NextAfterOpen(accepted) = "return"
                 THEN Return(t, "failed", "none")
                 ELSE /\ Goto(t, NextAfterOpen(accepted))
                      /\ UNCHANGED outcome
    /\ UNCHANGED <<TRADE_BALANCE, now, tracker, accountMode, symbol, action,
                   caller, position_mode, lev_side,
                   current_position, quantity, wake, attempts>>

\* open_position: trade_tracker.mark_trade, then execute_trade returns success
MarkTrade(t) ==
    /\ pc[t] = "mark_trade"
    /\ active_trades' = [active_trades EXCEPT
            ![symbol[t]] = {[side |-> action[t], quantity |-> quantity[t],
                             timestamp |-> now]}]
    /\ Return(t, "success", "none")
    /\ UNCHANGED <<TRADE_BALANCE, now, mode_cache, exchange, locals, calls, log,
                   attempts>>

\* the handler sends jsonify(result), status; the thread is free again
Respond(t) ==
    /\ pc[t] = "return"
    /\ Goto(t, "idle")
    /\ symbol' = [symbol EXCEPT ![t] = "SUI-USDT"]
    /\ action' = [action EXCEPT ![t] = "BUY"]
    /\ caller' = [caller EXCEPT ![t] = "none"]
    /\ position_mode' = [position_mode EXCEPT ![t] = "ONE_WAY"]
    /\ current_position' = [current_position EXCEPT ![t] = {}]
    /\ quantity' = [quantity EXCEPT ![t] = 0]
    /\ outcome' = [outcome EXCEPT ![t] = NoOutcome]
    /\ calls' = [calls EXCEPT ![t] = 0]
    /\ log' = [log EXCEPT ![t] = <<>>]
    /\ UNCHANGED <<TRADE_BALANCE, now, tracker, exchange, lev_side, wake,
                   attempts>>

\* Time passes.  The clock is read only by can_trade, mark_trade and the
\* mode cache, and only differences of readings matter, so it starts with
\* the first signal; HTTP round trips are short beside the sleeps and the
\* cooldown, so time advances while a request sleeps or none is under way.
\* A sleep always runs to its end; the run length bounds the time that
\* passes between requests.
Tick(limit) ==
    /\ \/ \E t \in Threads : pc[t] \in {"sleep1", "sleep3"} /\ now < wake[t]
       \/ /\ now < Epoch + limit
          /\ attempts > 0 /\ \A t \in Threads : pc[t] = "idle"
    /\ now' = now + 1
    /\ UNCHANGED <<TRADE_BALANCE, tracker, exchange, pc, locals, history>>

\* the steps of a request under way
Step(t, quotes) ==
    \/ CheckCooldown(t)
    \/ GetCachedMode(t)
    \/ DetectPositionMode(t)
    \/ SetLeverage(t)
    \/ Sleep1(t)
    \/ GetCurrentPosition(t)
    \/ ClosePosition(t)
    \/ Sleep3(t)
    \/ GetCurrentPrice(t, quotes)
    \/ OpenPosition(t)
    \/ MarkTrade(t)
    \/ Respond(t)

\* Flask serves each request on a thread of its own: the two endpoints run
\* execute_trade concurrently
Next ==
    \/ Tick(MaxTimeConcurrent)
    \/ \E t \in Threads :
          \/ \E s \in Symbols, a \in Actions : Webhook(t, s, a, MaxAttemptsConcurrent)
          \/ Step(t, ConcurrentPrices)

\* the concurrent runs start flat or short: a long start is the same run
\* with BUY and SELL exchanged
InitConcurrent ==
    /\ Init
    /\ TRADE_BALANCE = 5
    /\ exLong["SUI-USDT"] = 0

Spec == InitConcurrent /\ [][Next]_vars

\* signals arriving one at a time: the next one after the response to the last
NextSequential ==
    \/ Tick(MaxTime)
    \/ \E t \in Threads :
          \/ \E s \in Symbols, a \in Actions :
                /\ \A u \in Threads : pc[u] = "idle"
                /\ Webhook(t, s, a, MaxAttempts)
          \/ Step(t, Prices)

SpecSequential == Init /\ [][NextSequential]_vars

\* signals arriving one at a time, shortly after one another
NextFair ==
    \/ Tick(MaxTimeConcurrent)
    \/ \E t \in Threads :
          \/ \E s \in Symbols, a \in Actions :
                /\ \A u \in Threads : pc[u] = "idle"
                /\ Webhook(t, s, a, MaxAttemptsConcurrent)
          \/ Step(t, Prices)

\* the scheduler runs every request thread that can take a step, and time
\* does not stand still while a request sleeps; no signal has to arrive
Fairness ==
    /\ WF_vars(Tick(MaxTimeConcurrent))
    /\ \A t \in Threads : WF_vars(Step(t, Prices))

SpecFair == Init /\ [][NextFair]_vars /\ Fairness

\* ------------------------------------------------------------ properties
\* the events of one kind in the log of thread t's attempt
Entries(t, op) == {i \in DOMAIN log[t] : log[t][i].op = op}

\* the side of the position a signal asks for
TargetSide(a) == IF a = "BUY" THEN "LONG" ELSE "SHORT"

\* an entry of the cooldown table for s that is younger than the cooldown
RecentTrades(s) == {e \in active_trades[s] : now - e.timestamp < Cooldown}

\* thread t takes the cooldown check in this step
ChecksCooldown(t) == pc[t] = "can_trade" /\ pc'[t] # "can_trade"

\* C1: whenever an attempt returns "success", the exchange does not hold a
\* nonzero quantity on both the LONG and the SHORT side of its symbol.
C1_NoStack ==
    \A t \in Threads :
        (pc[t] = "return" /\ outcome[t].status = "success")
            => ~(exLong[symbol[t]] > 0 /\ exShort[symbol[t]] > 0)

\* after the position read and before the end of the open-order submission
PastEntryGate(t) ==
    \/ pc[t] \in {"close_post", "sleep3", "get_price", "open_post"}
    \/ pc[t] \in {"get_cached_mode", "detect_get"}
          /\ caller[t] \in {"close_position", "open_position"}

\* C2: two execute_trade calls for the same symbol are never both between
\* the position read and the end of the open-order submission.
C2_MutualExclusion ==
    \A t, u \in Threads :
        (t # u /\ symbol[t] = symbol[u]) => ~(PastEntryGate(t) /\ PastEntryGate(u))

\* C3: a call that takes the cooldown check less than 10 seconds after a
\* success for its symbol was marked returns "skipped" in that step, without
\* an exchange request and leaving the cooldown table, the mode cache and the
\* exchange as they were; a skipped attempt has made no request at all.
C3_IdempotentSecondCall ==
    [][\A t \in Threads :
          /\ (ChecksCooldown(t) /\ RecentTrades(symbol[t]) # {})
                => /\ pc'[t] = "return"
                   /\ outcome'[t].status = "skipped"
                   /\ outcome'[t].http = 200
                   /\ calls'[t] = 0 /\ log'[t] = <<>>
                   /\ UNCHANGED <<tracker, exchange>>
          /\ outcome'[t].status = "skipped" => (calls'[t] = 0 /\ log'[t] = <<>>)
      ]_vars

\* C3 witness: a second signal for the same symbol and side is skipped inside
\* the cooldown of the first one's success
C3_Witness ==
    \E t \in Threads :
        /\ pc[t] = "return" /\ outcome[t].status = "skipped" /\ calls[t] = 0
        /\ \E e \in RecentTrades(symbol[t]) : e.side = action[t]

\* C4: an attempt whose close order was rejected or failed has returned
\* "failed" at once and has submitted no open order.
C4_SafeAbortOnCloseFailure ==
    \A t \in Threads : \A i \in Entries(t, "close") :
        ~log[t][i].ok
            => /\ pc[t] = "return"
               /\ outcome[t].status = "failed"
               /\ outcome[t].reason = "close_position_failed"
               /\ Entries(t, "open") = {}
               /\ i = Len(log[t])

\* C4 witness: an attempt aborted by a rejected close order
C4_Witness ==
    \E t \in Threads : \E i \in Entries(t, "close") :
        ~log[t][i].ok /\ pc[t] = "return"

\* C5: an open order that follows an accepted close order of its attempt
\* also follows a position read, made after that close, that no longer
\* shows the closed side.
C5_VerifiedCloseBeforeOpen ==
    \A t \in Threads : \A i \in Entries(t, "open") : \A j \in Entries(t, "close") :
        (j < i /\ log[t][j].ok)
            => \E k \in Entries(t, "position") :
                  /\ j < k /\ k < i
                  /\ log[t][k].ok
                  /\ log[t][k].side # log[t][j].positionSide

\* C6: an attempt all of whose position reads failed submits neither a
\* close nor an open order and ends "failed".
C6_UnreadablePositionAborts ==
    \A t \in Threads :
        (Entries(t, "position") # {} /\ \A i \in Entries(t, "position") : ~log[t][i].ok)
            => /\ Entries(t, "close") = {} /\ Entries(t, "open") = {}
               /\ pc[t] = "return" => outcome[t].status = "failed"

\* the position reads of t's attempt that show the side the signal asks for
SameSideReads(t) ==
    {i \in Entries(t, "position") :
        log[t][i].ok /\ log[t][i].side = TargetSide(action[t])}

C8_SkippedOnlyForSameDirection ==
    \A t \in Threads :
        (pc[t] = "return" /\ outcome[t].status = "skipped")
            => \E e \in active_trades[symbol[t]] : e.side = action[t]

\* C8, amended: a signal is skipped exactly when a success for the same
\* symbol, in either direction, was marked less than 10 seconds before the
\* cooldown check; the direction of the signal plays no part.
C8_SkippedPerSymbol ==
    [][\A t \in Threads :
          ChecksCooldown(t)
              => ((outcome'[t].status = "skipped") <=> (RecentTrades(symbol[t]) # {}))
      ]_vars

\* C8 witness: a signal for the opposite direction is skipped inside the
\* cooldown of a success
C8_Witness ==
    \E t \in Threads :
        /\ pc[t] = "return" /\ outcome[t].status = "skipped"
        /\ \E e \in RecentTrades(symbol[t]) : e.side # action[t]

\* C9: after a price read that failed or gave a price of zero or less, the
\* attempt submits no open order and ends "failed".
C9_InvalidPriceAborts ==
    \A t \in Threads : \A i \in Entries(t, "price") :
        (~log[t][i].ok \/ log[t][i].qty <= 0)
            => /\ \A k \in Entries(t, "open") : k < i
               /\ pc[t] = "return" /\ outcome[t].status = "failed"

\* C10: every open order follows a successful price read of its own attempt
\* that comes after every close order of the attempt, and its quantity q (in
\* units of 1/10000) is TRADE_BALANCE * 3 / price rounded to the nearest
\* unit: budget 10 at price 5 gives 6, budget 5 at price 10 gives 1.5.
C10_Sizing ==
    \A t \in Threads : \A i \in Entries(t, "open") :
        /\ i > 1 /\ log[t][i - 1].op = "price" /\ log[t][i - 1].ok
        /\ \A j \in Entries(t, "close") : j < i - 1
        /\ LET price == log[t][i - 1].qty
               q == log[t][i].qty
               notional == TRADE_BALANCE * 3 * 10000
           IN  /\ 2 * Abs(q * price - notional) <= Abs(price)
               /\ (TRADE_BALANCE = 10 /\ price = 5) => q = 60000
               /\ (TRADE_BALANCE = 5 /\ price = 10) => q = 15000

\* C10 witness: an open order sized from a price read after the close order
\* of the same attempt, at a price that does not divide the notional
C10_Witness ==
    \E t \in Threads : \E i \in Entries(t, "open") : \E j \in Entries(t, "close") :
        /\ j < i /\ log[t][i].ok
        /\ log[t][i - 1].qty = 32
        /\ log[t][i].qty \in {4688, 9375}

\* C11: every signal execute_trade has handled is answered with HTTP 200 and
\* an outcome of success, skipped or failed, whatever the outcome was.
C11_AlwaysAnswers200 ==
    \A t \in Threads :
        pc[t] = "return"
            => /\ outcome[t].http = 200
               /\ outcome[t].status \in {"success", "skipped", "failed"}

\* C11 witness: an attempt that failed on a rejected close order or on a
\* rejected open order is answered with 200
C11_Witness ==
    \E t \in Threads :
        /\ pc[t] = "return" /\ outcome[t].status = "failed"
        /\ outcome[t].http = 200
        /\ log[t] # <<>>
        /\ log[t][Len(log[t])].op \in {"close", "open"}
        /\ ~log[t][Len(log[t])].ok

\* every request of t's attempt that the order flow depends on was answered
\* with success, the price request with a positive price
EveryCallSucceeded(t) ==
    \A i \in DOMAIN log[t] :
        log[t][i].ok /\ (log[t][i].op = "price" => log[t][i].qty > 0)

\* the position read of t's attempt shows a position opposite to the signal
ReadsOpposite(t) ==
    /\ log[t] # <<>>
    /\ log[t][1].op = "position" /\ log[t][1].ok
    /\ log[t][1].side \in {"LONG", "SHORT"} \ {TargetSide(action[t])}

\* C12: an attempt that read a position of quantity q opposite to its signal,
\* and whose exchange calls all succeeded, has submitted exactly one close
\* order of quantity q for that position, then read the price, then submitted
\* exactly one open order in the signal's direction with the quantity
\* computed from that price, and returns success.
C12_Flip ==
    \A t \in Threads :
        (pc[t] = "return" /\ ReadsOpposite(t) /\ EveryCallSucceeded(t))
            => /\ Len(log[t]) = 4
               /\ log[t][2].op = "close"
               /\ log[t][2].side = action[t]
               /\ log[t][2].qty = log[t][1].qty
               /\ log[t][3].op = "price"
               /\ log[t][4].op = "open"
               /\ log[t][4].side = action[t]
               /\ log[t][4].qty = PositionSize(TRADE_BALANCE, log[t][3].qty)
               /\ outcome[t].status = "success"

\* C12 witness: short 2.0 held, BUY signal, price 10, budget 5: the short is
\* closed with quantity 2.0 and a long of 1.5 is opened
C12_Witness ==
    \E t \in Threads :
        /\ pc[t] = "return" /\ ReadsOpposite(t) /\ EveryCallSucceeded(t)
        /\ action[t] = "BUY" /\ TRADE_BALANCE = 5
        /\ log[t][1].side = "SHORT" /\ log[t][1].qty = 20000
        /\ log[t][2].qty = 20000
        /\ log[t][3].qty = 10
        /\ log[t][4].qty = 15000
        /\ outcome[t].status = "success"

\* the quantity the exchange holds against a signal: the short for BUY, the
\* long for SELL
HeldOpposite(s, a) == IF a = "BUY" THEN exShort[s] ELSE exLong[s]

\* thread t submits its open order in this step
SubmitsOpen(t) == pc[t] = "open_post" /\ Len(log'[t]) = Len(log[t]) + 1

\* C13: an open order is submitted only when the exchange holds nothing on
\* the opposite side of the symbol at that moment, or a close order of the
\* same attempt was accepted before.
C13_ClosesBeforeOpeningOpposite ==
    [][\A t \in Threads :
          SubmitsOpen(t)
              => \/ HeldOpposite(symbol[t], action[t]) = 0
                 \/ \E i \in Entries(t, "close") : log[t][i].ok]_vars

\* the last request logged by t's attempt is an accepted open order
OpenAccepted(t) ==
    /\ log[t] # <<>>
    /\ log[t][Len(log[t])].op = "open"
    /\ log[t][Len(log[t])].ok

\* thread t returns from execute_trade with this status in this step
Returns(t, status) ==
    pc[t] # "return" /\ pc'[t] = "return" /\ outcome'[t].status = status

\* C14: the cooldown table changes only in a step of an attempt whose open
\* order was accepted, which writes the entry of its own symbol; the step in
\* which an attempt returns failed leaves the table as it was.
C14_CooldownOnlyOnAcceptedOpen ==
    [][/\ active_trades' # active_trades
            => \E t \in Threads :
                  /\ pc'[t] # pc[t]
                  /\ OpenAccepted(t)
                  /\ \A s \in Symbols \ {symbol[t]} :
                        active_trades'[s] = active_trades[s]
       /\ \A t \in Threads :
             Returns(t, "failed") => active_trades' = active_trades]_vars

\* C14 witness: the second signal has passed the cooldown check within ten
\* seconds of the first, whose attempt failed and left the table empty
C14_Witness ==
    \E t \in Threads :
        /\ attempts = 2
        /\ pc[t] \notin {"idle", "can_trade", "return"}
        /\ active_trades[symbol[t]] = {}
        /\ now < Epoch + Cooldown

\* the orders t's attempt has submitted
Orders(t) == Entries(t, "close") \cup Entries(t, "open")

\* C15: within one attempt no order is submitted a second time for the same
\* intent without a position read in between; at most one close order and
\* at most two open orders are submitted.
C15_NoBlindResubmission ==
    \A t \in Threads :
        /\ Cardinality(Entries(t, "close")) <= 1
        /\ Cardinality(Entries(t, "open")) <= 2
        /\ \A i, j \in Orders(t) :
              (i < j /\ log[t][i].op = log[t][j].op /\ log[t][i].side = log[t][j].side)
                  => \E k \in Entries(t, "position") : i < k /\ k < j

\* C15 witness: an attempt has returned failed after a rejected order, which
\* it submitted once
C15_Witness ==
    \E t \in Threads :
        /\ pc[t] = "return" /\ outcome[t].status = "failed"
        /\ Len(log[t]) \in Orders(t)
        /\ ~log[t][Len(log[t])].ok
        /\ Cardinality(Entries(t, log[t][Len(log[t])].op)) = 1

\* C16: when the quantity computed from the price rounds to 0, no open order
\* is submitted: no open order of quantity 0 ever reaches the exchange.
C16_BelowMinimumAborts ==
    \A t \in Threads : \A i \in Entries(t, "open") : log[t][i].qty # 0

\* thread t submits its close order in this step
SubmitsClose(t) == pc[t] = "close_post" /\ Len(log'[t]) = Len(log[t]) + 1

\* the order t submits in this step
Submitted(t) == log'[t][Len(log'[t])]

\* C17: an order carries positionSide BOTH when the mode detected for it is
\* ONE_WAY; when it is HEDGE an open order carries LONG for BUY and SHORT for
\* SELL, and a close order carries the side of the position read, with the
\* opposite order side (SELL closes LONG, BUY closes SHORT).
C17_PositionSideFollowsMode ==
    [][\A t \in Threads :
          /\ SubmitsOpen(t)
                => /\ Submitted(t).side = action[t]
                   /\ Submitted(t).positionSide =
                         IF position_mode[t] = "ONE_WAY" THEN "BOTH"
                         ELSE IF action[t] = "BUY" THEN "LONG" ELSE "SHORT"
          /\ SubmitsClose(t)
                => /\ Submitted(t).side =
                         IF log[t][1].side = "LONG" THEN "SELL" ELSE "BUY"
                   /\ Submitted(t).positionSide =
                         IF position_mode[t] = "ONE_WAY" THEN "BOTH"
                         ELSE log[t][1].side]_vars

\* C17 witness: in hedge mode a long was closed by a SELL order carrying LONG
\* and a short opened by a SELL order carrying SHORT, both accepted
C17_Witness ==
    \E t \in Threads :
        /\ accountMode = "HEDGE" /\ position_mode[t] = "HEDGE"
        /\ Len(log[t]) = 4
        /\ log[t][1].side = "LONG"
        /\ log[t][2].op = "close" /\ log[t][2].ok
        /\ log[t][2].side = "SELL" /\ log[t][2].positionSide = "LONG"
        /\ log[t][4].op = "open" /\ log[t][4].ok
        /\ log[t][4].side = "SELL" /\ log[t][4].positionSide = "SHORT"

\* C18: of two execute_trade calls under way at once for the same symbol and
\* the same side, at most one submits an open order.
C18_NoDuplicateOpen ==
    \A t, u \in Threads :
        (t # u /\ symbol[t] = symbol[u] /\ action[t] = action[u])
            => Entries(t, "open") = {} \/ Entries(u, "open") = {}

\* C19: an attempt has returned success exactly when an open order it
\* submitted was accepted; the step in which it returns success is the step
\* that writes the cooldown entry of its symbol, and no other step of an
\* attempt writes one.
C19_OutcomeMatchesExchange ==
    [][\A t \in Threads :
          /\ pc'[t] = "return"
                => (outcome'[t].status = "success"
                       <=> \E i \in DOMAIN log'[t] :
                              log'[t][i].op = "open" /\ log'[t][i].ok)
          /\ Returns(t, "success")
                => active_trades'[symbol[t]] =
                      {[side |-> action[t], quantity |-> quantity[t],
                        timestamp |-> now]}
          /\ (pc'[t] # pc[t] /\ ~Returns(t, "success")
                /\ \A u \in Threads \ {t} : pc'[u] = pc[u])
                => active_trades' = active_trades]_vars

\* C19 witness: an attempt has returned success after an accepted open order
\* and the cooldown entry carries its side and quantity
C19_Witness ==
    \E t \in Threads :
        /\ pc[t] = "return" /\ outcome[t].status = "success"
        /\ OpenAccepted(t)
        /\ \E e \in active_trades[symbol[t]] :
              e.side = action[t] /\ e.quantity = quantity[t]

\* C20: every attempt that has entered execute_trade reaches a return with
\* status success, skipped or failed, whatever the exchange answers, and no
\* attempt makes more than eight requests, of which at most four are the
\* position read, the close order, the price read and the open order.
C20_Terminates ==
    /\ [](\A t \in Threads : calls[t] <= 8 /\ Len(log[t]) <= 4)
    /\ \A t \in Threads :
          (pc[t] = "can_trade")
              ~> (pc[t] = "return"
                    /\ outcome[t].status \in {"success", "skipped", "failed"})

\* C20 witness: an attempt has returned although every request it logged
\* had failed
C20_Witness ==
    \E t \in Threads :
        /\ pc[t] = "return"
        /\ Len(log[t]) >= 2
        /\ \A i \in DOMAIN log[t] : ~log[t][i].ok
====
